---- MODULE Spec2Model ----
(***************************************************************************)
(* Model of the telegram-digest backend: the /api/digest handler           *)
(* (src/main.py get_digest), the configuration lookups it uses, the        *)
(* TelegramDigestClient wrapper (src/telegram_client.py) and the summarise *)
(* dispatcher (src/summariser.py).                                         *)
(*                                                                         *)
(* A request is a coroutine: it runs from one await to the next, and       *)
(* several requests may be suspended at the same time.  Each request keeps *)
(* its locals (errors, summaries, message_counts, loop positions) in the   *)
(* entry of its own id; CONFIG and tg_client are the module globals.       *)
(* The conversation source and the generation backend are the environment  *)
(* `env`, fixed for one behaviour, so that every call with the same        *)
(* arguments is answered in the same way.                                  *)
(***************************************************************************)
EXTENDS Integers, Sequences, FiniteSets, TLC

VARIABLES
    CONFIG,          \* main.py:19-20   the loaded configuration document
    tg_client,       \* main.py:23      None or the client object
    life,            \* main.py:26-35   position of the lifespan context manager
    env,             \* the conversation source and the generation backend
    pc,              \* per request: position of the coroutine
    since_hours,     \* per request: the query parameter
    errors,          \* per request: main.py:111
    summaries,       \* per request: main.py:112
    message_counts,  \* per request: main.py:120
    fi,              \* per request: index of the forum loop, main.py:127
    ti,              \* per request: index of the topic loop, main.py:145
    gi,              \* per request: index of the group loop, main.py:198
    unread,          \* per request: result of get_unread_summary, main.py:115
    topics,          \* per request: result of get_group_topics, main.py:143
    forum_data,      \* per request: main.py:136
    messages,        \* per request: the fetched window, main.py:175 / 223
    calls            \* per request: the calls made on the client and on summarise

vars == <<CONFIG, tg_client, life, env, pc, since_hours, errors, summaries,
          message_counts, fi, ti, gi, unread, topics, forum_data, messages, calls>>

(***************************************************************************)
(* Bounds of the model.                                                    *)
(***************************************************************************)
MaxReqs == 2        \* digest requests in one behaviour
MaxUnread == 3      \* largest unread count and largest threshold
MaxFaults == 2      \* calls of the library and the backend that raise in one behaviour

Reqs == 1..MaxReqs

(***************************************************************************)
(* Python values.                                                          *)
(***************************************************************************)
None == "None"
Client == "TelegramDigestClient"
NoTopic == 0            \* topic id of a call that has no topic
AllTopics == "(all)"    \* main.py:234

\* str.lower() over the names of the model
Lower(s) ==
    CASE s = "Team" -> "team"
      [] s = "TEAM" -> "team"
      [] s = "Chat" -> "chat"
      [] s = "CHAT" -> "chat"
      [] s = "Eng"  -> "eng"
      [] s = "ENG"  -> "eng"
      [] s = "Dev"  -> "dev"
      [] s = "DEV"  -> "dev"
      [] s = "Ops"  -> "ops"
      [] s = "Mom"  -> "mom"
      [] s = "Ann"  -> "ann"
      [] s = "Old"  -> "old"
      [] s = "Attic" -> "attic"
      [] s = "Random" -> "random"
      [] s = "Misc" -> "misc"
      [] s = "Unknown" -> "unknown"
      [] OTHER      -> s

\* dict.get(key, default) and `key in dict`: a dict is a record with the set
\* of the keys it holds in field "keys"
Has(d, k) == k \in d.keys
Get(d, k, default) == IF k \in d.keys THEN d[k] ELSE default

DefaultThreshold == 1
FetchLimit == 100

(***************************************************************************)
(* Configuration lookups, main.py:51-92.                                   *)
(***************************************************************************)
ConfigGroups == Get(CONFIG, "groups", <<>>)

RECURSIVE FindTopic(_, _, _)
\* main.py:56-58: the first topic of the entry whose name matches
FindTopic(tl, topic_name, i) ==
    IF i > Len(tl) THEN 0
    ELSE IF Lower(tl[i].name) = Lower(topic_name) THEN i
    ELSE FindTopic(tl, topic_name, i + 1)

NotFound == [found |-> FALSE, name |-> "", keys |-> {}, type |-> "", threshold |-> 0]

Found(name, keys, type, threshold) ==
    [found |-> TRUE, name |-> name, keys |-> keys, type |-> type, threshold |-> threshold]

RECURSIVE TopicConfigFrom_DefaultFirst(_, _, _)
\* the lookup with the default style of the entry tried before its topics
TopicConfigFrom_DefaultFirst(i, group_name, topic_name) ==
    IF i > Len(ConfigGroups) THEN NotFound
    ELSE LET group == ConfigGroups[i]
             tl    == Get(group, "topics", <<>>)
             k     == FindTopic(tl, topic_name, 1)
         IN  IF Lower(group.name) = Lower(group_name)
             THEN IF Has(group, "default_type")
                  THEN Found(topic_name, {"name", "type", "threshold"},
                             group.default_type, 1)
                  ELSE IF k > 0
                  THEN Found(tl[k].name, tl[k].keys, tl[k].type, tl[k].threshold)
                  ELSE TopicConfigFrom_DefaultFirst(i + 1, group_name, topic_name)
             ELSE TopicConfigFrom_DefaultFirst(i + 1, group_name, topic_name)

RECURSIVE TopicConfigFrom(_, _, _)
TopicConfigFrom(i, group_name, topic_name) ==
    IF i > Len(ConfigGroups) THEN NotFound
    ELSE LET group == ConfigGroups[i]
             tl    == Get(group, "topics", <<>>)
             k     == FindTopic(tl, topic_name, 1)
         IN  IF Lower(group.name) = Lower(group_name)
             THEN IF k > 0
                  THEN Found(tl[k].name, tl[k].keys, tl[k].type, tl[k].threshold)
                  ELSE IF Has(group, "default_type")
                  THEN Found(topic_name, {"name", "type", "threshold"},
                             group.default_type, 1)
                  ELSE TopicConfigFrom(i + 1, group_name, topic_name)
             ELSE TopicConfigFrom(i + 1, group_name, topic_name)

get_topic_config(group_name, topic_name) == TopicConfigFrom(1, group_name, topic_name)

is_configured_group(group_name) ==
    \E i \in 1..Len(ConfigGroups) : Lower(ConfigGroups[i].name) = Lower(group_name)

RECURSIVE GroupConfigFrom_AnyName(_, _)
\* the lookup without the comparison of names: the first flat entry wins
GroupConfigFrom_AnyName(i, group_name) ==
    IF i > Len(ConfigGroups) THEN NotFound
    ELSE LET group == ConfigGroups[i]
         IN  IF Has(group, "type")
             THEN Found(group.name, group.keys, group.type, group.threshold)
             ELSE GroupConfigFrom_AnyName(i + 1, group_name)

RECURSIVE GroupConfigFrom_AnyEntry(_, _)
\* the lookup without the test for a direct style: the first entry of the name
GroupConfigFrom_AnyEntry(i, group_name) ==
    IF i > Len(ConfigGroups) THEN NotFound
    ELSE LET group == ConfigGroups[i]
         IN  IF Lower(group.name) = Lower(group_name)
             THEN Found(group.name, group.keys, group.type, group.threshold)
             ELSE GroupConfigFrom_AnyEntry(i + 1, group_name)

RECURSIVE GroupConfigFrom(_, _)
GroupConfigFrom(i, group_name) ==
    IF i > Len(ConfigGroups) THEN NotFound
    ELSE LET group == ConfigGroups[i]
         IN  IF Lower(group.name) = Lower(group_name) /\ Has(group, "type")
             THEN Found(group.name, group.keys, group.type, group.threshold)
             ELSE GroupConfigFrom(i + 1, group_name)

get_group_config(group_name) == GroupConfigFrom(1, group_name)

\* the exclusion test without lower-casing
is_excluded_group_CaseSensitive(group_name) ==
    LET excluded == Get(CONFIG, "excluded_groups", <<>>)
    IN  \E i \in 1..Len(excluded) : group_name = excluded[i]

is_excluded_group(group_name) ==
    LET excluded == Get(CONFIG, "excluded_groups", <<>>)
    IN  \E i \in 1..Len(excluded) : Lower(group_name) = Lower(excluded[i])

show_dms == Get(CONFIG, "show_dm_counts", TRUE)

(***************************************************************************)
(* The conversation source, telegram_client.py.  env.dialogs is what       *)
(* Telethon's get_dialogs answers, env.topics what GetForumTopicsRequest   *)
(* answers for a forum, env.ages the ages in hours of the messages of a    *)
(* chat or topic, newest first.  env.faults names the calls of the         *)
(* underlying library and of the generation backend that raise.            *)
(***************************************************************************)
Fault(op, conv, topic) == <<op, conv, topic>>
Fails(op, conv, topic) == Fault(op, conv, topic) \in env.faults

Item(dialog) ==
    [id |-> dialog.id,
     name |-> IF dialog.name = "" THEN "Unknown" ELSE dialog.name,
     unread_count |-> dialog.unread_count]

Listed(kinds) ==
    LET kept == SelectSeq(env.dialogs,
                          LAMBDA d : d.unread_count # 0 /\ ~d.archived /\ d.kind \in kinds)
    IN  [i \in 1..Len(kept) |-> Item(kept[i])]

\* A call returns [raised, value]; raised means the exception leaves the call.
Returned(v) == [raised |-> FALSE, value |-> v]
Raised(e) == [raised |-> TRUE, value |-> e]

\* the listing with direct messages filed under the plain groups
get_unread_summary_UsersAsGroups ==
    IF Fails("get_dialogs", 0, NoTopic)
    THEN Raised("get_dialogs")
    ELSE Returned([dms |-> <<>>,
                   groups |-> Listed({"User", "Channel", "Chat"}),
                   supergroups |-> Listed({"Forum"})])

get_unread_summary ==
    IF Fails("get_dialogs", 0, NoTopic)
    THEN Raised("get_dialogs")
    ELSE Returned([dms |-> Listed({"User"}),
                   groups |-> Listed({"Channel", "Chat"}),
                   supergroups |-> Listed({"Forum"})])

IsForumEntity(group_id) ==
    \E i \in 1..Len(env.dialogs) : env.dialogs[i].id = group_id /\ env.dialogs[i].kind = "Forum"

\* the topic list without the try/except around it
get_group_topics_Propagates(group_id) ==
    IF Fails("GetForumTopics", group_id, NoTopic)
    THEN Raised("GetForumTopics")
    ELSE IF ~IsForumEntity(group_id)
    THEN Returned(<<>>)
    ELSE Returned(env.topics[group_id])

get_group_topics(group_id) ==
    IF Fails("GetForumTopics", group_id, NoTopic)
    THEN Returned(<<>>)
    ELSE IF ~IsForumEntity(group_id)
    THEN Returned(<<>>)
    ELSE Returned(env.topics[group_id])

RECURSIVE Window_NoCutoff(_, _, _)
\* iter_messages without the cutoff: every message up to the limit
Window_NoCutoff(ages, hours, i) ==
    IF i > Len(ages) \/ i > FetchLimit THEN <<>>
    ELSE <<ages[i]>> \o Window_NoCutoff(ages, hours, i + 1)

RECURSIVE Window(_, _, _)
\* iter_messages, newest first, until the first message older than the cutoff
Window(ages, hours, i) ==
    IF i > Len(ages) \/ i > FetchLimit THEN <<>>
    ELSE IF ages[i] > hours THEN <<>>
    ELSE <<ages[i]>> \o Window(ages, hours, i + 1)

get_topic_messages(group_id, topic_id, hours) ==
    IF Fails("iter_messages", group_id, topic_id)
    THEN Returned(<<>>)
    ELSE Returned(Window(env.ages[<<group_id, topic_id>>], hours, 1))

get_chat_messages(chat_id, hours) ==
    IF Fails("iter_messages", chat_id, NoTopic)
    THEN Returned(<<>>)
    ELSE Returned(Window(env.ages[<<chat_id, NoTopic>>], hours, 1))

(***************************************************************************)
(* The summary generator, summariser.py.                                   *)
(***************************************************************************)
Templates == {"technical", "memes", "logistics", "invites"}

\* the dispatch with the technical template as the fallback
Dispatch_FallbackTechnical(summary_type) ==
    IF summary_type \in Templates THEN summary_type ELSE "technical"

\* summariser.py:214-224
Dispatch(summary_type) ==
    IF summary_type \in Templates THEN summary_type ELSE "logistics"

NoText == [kind |-> "None", template |-> "", label |-> ""]
Text(kind, template, label) == [kind |-> kind, template |-> template, label |-> label]

\* `if summary_text:` None and the empty string are falsy
Truthy(text) == text.kind \in {"placeholder", "generated"}

\* One template, summariser.py:42-195: the placeholder for an empty window,
\* else the backend call, which answers text, an empty text, or raises.
Template(template, msgs, topic_name, conv, topic) ==
    IF msgs = <<>>
    THEN Returned(Text("placeholder", template, topic_name))
    ELSE IF Fails("messages.create", conv, topic)
    THEN Raised("messages.create")
    ELSE IF Fails("empty_text", conv, topic)
    THEN Returned(Text("empty", template, topic_name))
    ELSE Returned(Text("generated", template, topic_name))

\* conv and topic say whose window msgs is: the backend's answer depends on it
summarise(msgs, topic_name, summary_type, conv, topic) ==
    IF summary_type = "skip"
    THEN Returned(NoText)
    ELSE Template(Dispatch(summary_type), msgs, topic_name, conv, topic)

(***************************************************************************)
(* The lifespan context manager, main.py:26-35.                            *)
(***************************************************************************)
InFlight(r) == pc[r] \notin {"new", "done", "failed"}

\* main.py:29-31: the client object is assigned before connect is awaited.
\* The server runs the lifespan before it serves; a request served in life
\* "created" is one of an application run without its lifespan.
LifespanStart ==
    /\ life = "created"
    /\ \A r \in Reqs : pc[r] = "new"
    /\ tg_client' = Client
    /\ life' = "connecting"
    /\ UNCHANGED <<CONFIG, env, pc, since_hours, errors, summaries, message_counts,
                   fi, ti, gi, unread, topics, forum_data, messages, calls>>

\* main.py:31-33: connect returns and the application starts serving
ConnectReturns ==
    /\ life = "connecting"
    /\ life' = "serving"
    /\ UNCHANGED <<CONFIG, tg_client, env, pc, since_hours, errors, summaries,
                   message_counts, fi, ti, gi, unread, topics, forum_data, messages, calls>>

\* main.py:31: connect raises, the application never serves
ConnectRaises ==
    /\ life = "connecting"
    /\ life' = "startup_failed"
    /\ UNCHANGED <<CONFIG, tg_client, env, pc, since_hours, errors, summaries,
                   message_counts, fi, ti, gi, unread, topics, forum_data, messages, calls>>

\* main.py:34-35: shutdown, once the server has drained its requests
Shutdown ==
    /\ life = "serving"
    /\ \A r \in Reqs : ~InFlight(r)
    /\ life' = "stopped"
    /\ UNCHANGED <<CONFIG, tg_client, env, pc, since_hours, errors, summaries,
                   message_counts, fi, ti, gi, unread, topics, forum_data, messages, calls>>

\* main.py:249-252: the answer of the health check in the current state; the
\* handler reads tg_client and writes nothing
health == [status |-> "ok", telegram_connected |-> tg_client # None]

(***************************************************************************)
(* get_digest, main.py:101-246: one action per stretch of the coroutine     *)
(* between two awaits.                                                     *)
(***************************************************************************)
NoCounts == [dms |-> <<>>, groups |-> <<>>, forums |-> <<>>]
NoUnread == [dms |-> <<>>, groups |-> <<>>, supergroups |-> <<>>]
NoForum == [name |-> "", total_count |-> 0, topics |-> <<>>]

Call(op, conv, topic, style) == [op |-> op, conv |-> conv, topic |-> topic, style |-> style]

Counts(items) == [i \in 1..Len(items) |-> [name |-> items[i].name, count |-> items[i].unread_count]]

\* the counts with the exclusion list applied to the direct messages too
InitialCounts_ExcludesDms(u) ==
    [dms |-> IF show_dms
             THEN Counts(SelectSeq(u.dms, LAMBDA d : ~is_excluded_group(d.name)))
             ELSE <<>>,
     groups |-> Counts(SelectSeq(u.groups, LAMBDA g : ~is_excluded_group(g.name))),
     forums |-> <<>>]

\* main.py:120-124
InitialCounts(u) ==
    [dms |-> IF show_dms THEN Counts(u.dms) ELSE <<>>,
     groups |-> Counts(SelectSeq(u.groups, LAMBDA g : ~is_excluded_group(g.name))),
     forums |-> <<>>]

\* main.py:193 and main.py:240
TopicError(forum_name, topic_name, e) == [group |-> forum_name, topic |-> topic_name, exc |-> e]
GroupError(group_name, e) == [group |-> group_name, topic |-> "", exc |-> e]

\* main.py:185-191 and main.py:232-238
Summary(group_name, topic_name, summary_type, msgs, text) ==
    [group |-> group_name, topic |-> topic_name, type |-> summary_type,
     message_count |-> Len(msgs), summary |-> text]

\* eligibility without the comparison against the threshold
TopicEligible_NoThreshold(forum_name, topic) ==
    /\ is_configured_group(forum_name)
    /\ LET topic_config == get_topic_config(forum_name, topic.title)
       IN  /\ topic_config.found
           /\ Get(topic_config, "type", "skip") # "skip"

\* eligibility without the test for the style skip
TopicEligible_NoSkip(forum_name, topic) ==
    /\ is_configured_group(forum_name)
    /\ LET topic_config == get_topic_config(forum_name, topic.title)
       IN  /\ topic_config.found
           /\ ~(topic.unread_count < Get(topic_config, "threshold", DefaultThreshold))

\* main.py:157-171: the topic is fetched and summarised
TopicEligible(forum_name, topic) ==
    /\ is_configured_group(forum_name)
    /\ LET topic_config == get_topic_config(forum_name, topic.title)
       IN  /\ topic_config.found
           /\ Get(topic_config, "type", "skip") # "skip"
           /\ ~(topic.unread_count < Get(topic_config, "threshold", DefaultThreshold))

TopicType(forum_name, topic) ==
    Get(get_topic_config(forum_name, topic.title), "type", "skip")

\* main.py:204-219: the group is fetched and summarised
GroupEligible(group) ==
    /\ ~is_excluded_group(group.name)
    /\ LET group_config == get_group_config(group.name)
       IN  /\ group_config.found
           /\ Get(group_config, "type", "skip") # "skip"
           /\ ~(group.unread_count < Get(group_config, "threshold", DefaultThreshold))

GroupType(group) == Get(get_group_config(group.name), "type", "skip")

\* the values of since_hours the callers of this run ask for
SinceChoices == env.hours

\* the locals of request r that the loops of get_digest read and write
Locals(r) ==
    [pc |-> pc[r], fi |-> fi[r], ti |-> ti[r], gi |-> gi[r], topics |-> topics[r],
     forum_data |-> forum_data[r], message_counts |-> message_counts[r],
     calls |-> calls[r]]

\* main.py:127-143: the next forum; an excluded one is passed over, the topic
\* list of any other is requested; after the last forum the groups follow
ForumStep(L, u) ==
    IF L.fi > Len(u.supergroups)
    THEN [L EXCEPT !.pc = "group", !.fi = 0, !.gi = 1]
    ELSE LET forum == u.supergroups[L.fi]
         IN  IF is_excluded_group(forum.name)
             THEN [L EXCEPT !.fi = @ + 1]
             ELSE [L EXCEPT !.pc = "topics",
                            !.forum_data = [name |-> forum.name,
                                            total_count |-> forum.unread_count,
                                            topics |-> <<>>],
                            !.calls = Append(@, Call("get_group_topics", forum.id, NoTopic, ""))]

\* main.py:145-171 and main.py:195: the next topic of the forum is counted,
\* and fetched when it is eligible; after the last one the forum is recorded
TopicStep(L, u) ==
    IF L.ti > Len(L.topics)
    THEN [L EXCEPT !.message_counts.forums = Append(@, L.forum_data),
                   !.forum_data = NoForum, !.topics = <<>>, !.ti = 0,
                   !.fi = @ + 1, !.pc = "forum"]
    ELSE LET forum == u.supergroups[L.fi]
             topic == L.topics[L.ti]
             counted == [L EXCEPT !.forum_data.topics =
                            Append(@, [name |-> topic.title, count |-> topic.unread_count])]
         IN  IF TopicEligible(forum.name, topic)
             THEN [counted EXCEPT !.pc = "topic_fetch",
                                  !.calls = Append(@, Call("get_topic_messages", forum.id,
                                                           topic.id, ""))]
             ELSE [counted EXCEPT !.ti = @ + 1]

\* main.py:198-227 and main.py:242-246: the next plain group is fetched when
\* it is eligible; after the last one the response is returned
GroupStep(L, u) ==
    IF L.gi > Len(u.groups)
    THEN [L EXCEPT !.pc = "done", !.gi = 0]
    ELSE LET group == u.groups[L.gi]
         IN  IF GroupEligible(group)
             THEN [L EXCEPT !.pc = "group_fetch",
                            !.calls = Append(@, Call("get_chat_messages", group.id, NoTopic, ""))]
             ELSE [L EXCEPT !.gi = @ + 1]

RECURSIVE RunToAwait(_, _)
\* the coroutine runs on, without yielding, up to its next await or its return
RunToAwait(L, u) ==
    IF L.pc = "forum" THEN RunToAwait(ForumStep(L, u), u)
    ELSE IF L.pc = "topic" THEN RunToAwait(TopicStep(L, u), u)
    ELSE IF L.pc = "group" THEN RunToAwait(GroupStep(L, u), u)
    ELSE L

\* request r resumes with locals L and runs to its next await
Continue(r, L, u) ==
    LET N == RunToAwait(L, u)
    IN  /\ pc' = [pc EXCEPT ![r] = N.pc]
        /\ fi' = [fi EXCEPT ![r] = N.fi]
        /\ ti' = [ti EXCEPT ![r] = N.ti]
        /\ gi' = [gi EXCEPT ![r] = N.gi]
        /\ topics' = [topics EXCEPT ![r] = N.topics]
        /\ forum_data' = [forum_data EXCEPT ![r] = N.forum_data]
        /\ message_counts' = [message_counts EXCEPT ![r] = N.message_counts]
        /\ calls' = [calls EXCEPT ![r] = N.calls]

\* the request with errors as a list shared by the requests instead of a local
StartRequest_SharedErrors(r) ==
    /\ pc[r] = "new"
    /\ (r > 1) => (pc[r - 1] # "new")
    /\ life \in {"created", "serving"}
    /\ \E h \in SinceChoices : since_hours' = [since_hours EXCEPT ![r] = h]
    /\ IF tg_client = None
       THEN /\ pc' = [pc EXCEPT ![r] = "failed"]
            /\ UNCHANGED <<calls, errors>>
       ELSE /\ pc' = [pc EXCEPT ![r] = "listing"]
            /\ errors' = [errors EXCEPT ![r] = IF r > 1 THEN errors[r - 1] ELSE <<>>]
            /\ calls' = [calls EXCEPT ![r] = Append(@, Call("get_unread_summary", 0, NoTopic, ""))]
    /\ UNCHANGED <<CONFIG, tg_client, life, env, summaries, message_counts,
                   fi, ti, gi, unread, topics, forum_data, messages>>

\* main.py:102-115: the request starts; without a client it fails with HTTP 500
StartRequest(r) ==
    /\ pc[r] = "new"
    /\ (r > 1) => (pc[r - 1] # "new")
    /\ life \in {"created", "serving"}
    /\ \E h \in SinceChoices : since_hours' = [since_hours EXCEPT ![r] = h]
    /\ IF tg_client = None
       THEN /\ pc' = [pc EXCEPT ![r] = "failed"]
            /\ calls' = calls
       ELSE /\ pc' = [pc EXCEPT ![r] = "listing"]
            /\ calls' = [calls EXCEPT ![r] = Append(@, Call("get_unread_summary", 0, NoTopic, ""))]
    /\ UNCHANGED <<CONFIG, tg_client, life, env, errors, summaries, message_counts,
                   fi, ti, gi, unread, topics, forum_data, messages>>

\* the listing with its exception caught and reported in a partial response
ListingReturns_Caught(r) ==
    /\ pc[r] = "listing"
    /\ LET res == get_unread_summary
       IN  IF res.raised
           THEN /\ pc' = [pc EXCEPT ![r] = "done"]
                /\ errors' = [errors EXCEPT ![r] = Append(@, GroupError("", res.value))]
                /\ UNCHANGED <<unread, message_counts, fi, ti, gi, topics, forum_data, calls>>
           ELSE /\ unread' = [unread EXCEPT ![r] = res.value]
                /\ errors' = errors
                /\ Continue(r, [Locals(r) EXCEPT !.pc = "forum", !.fi = 1,
                                    !.message_counts = InitialCounts(res.value)],
                            res.value)
    /\ UNCHANGED <<CONFIG, tg_client, life, env, since_hours, summaries, messages>>

\* the listing whose failure drops the global client reference
ListingReturns_DropsClient(r) ==
    /\ pc[r] = "listing"
    /\ LET res == get_unread_summary
       IN  IF res.raised
           THEN /\ pc' = [pc EXCEPT ![r] = "failed"]
                /\ tg_client' = None
                /\ UNCHANGED <<unread, message_counts, fi, ti, gi, topics, forum_data, calls>>
           ELSE /\ unread' = [unread EXCEPT ![r] = res.value]
                /\ tg_client' = tg_client
                /\ Continue(r, [Locals(r) EXCEPT !.pc = "forum", !.fi = 1,
                                    !.message_counts = InitialCounts(res.value)],
                            res.value)
    /\ UNCHANGED <<CONFIG, life, env, since_hours, errors, summaries, messages>>

\* main.py:115-124: the listing returns, or its exception ends the request
ListingReturns(r) ==
    /\ pc[r] = "listing"
    /\ LET res == get_unread_summary
       IN  IF res.raised
           THEN /\ pc' = [pc EXCEPT ![r] = "failed"]
                /\ UNCHANGED <<unread, message_counts, fi, ti, gi, topics, forum_data, calls>>
           ELSE /\ unread' = [unread EXCEPT ![r] = res.value]
                /\ Continue(r, [Locals(r) EXCEPT !.pc = "forum", !.fi = 1,
                                    !.message_counts = InitialCounts(res.value)],
                            res.value)
    /\ UNCHANGED <<CONFIG, tg_client, life, env, since_hours, errors, summaries, messages>>

\* main.py:143-145: get_group_topics returns
TopicsReturn(r) ==
    /\ pc[r] = "topics"
    /\ LET res == get_group_topics(unread[r].supergroups[fi[r]].id)
       IN  IF res.raised
           THEN /\ pc' = [pc EXCEPT ![r] = "failed"]
                /\ UNCHANGED <<message_counts, fi, ti, gi, topics, forum_data, calls>>
           ELSE Continue(r, [Locals(r) EXCEPT !.pc = "topic", !.topics = res.value,
                                              !.ti = 1],
                         unread[r])
    /\ UNCHANGED <<CONFIG, tg_client, life, env, since_hours, errors, summaries,
                   unread, messages>>

\* main.py:174-183 and main.py:192-193: get_topic_messages returns
TopicFetchReturns(r) ==
    /\ pc[r] = "topic_fetch"
    /\ LET forum == unread[r].supergroups[fi[r]]
           topic == topics[r][ti[r]]
           res   == get_topic_messages(forum.id, topic.id, since_hours[r])
           next  == [Locals(r) EXCEPT !.pc = "topic", !.ti = @ + 1]
       IN  IF res.raised
           THEN /\ errors' = [errors EXCEPT ![r] =
                       Append(@, TopicError(forum.name, topic.title, res.value))]
                /\ Continue(r, next, unread[r])
                /\ UNCHANGED messages
           ELSE IF res.value = <<>>
           THEN /\ Continue(r, next, unread[r])
                /\ UNCHANGED <<errors, messages>>
           ELSE /\ messages' = [messages EXCEPT ![r] = res.value]
                /\ Continue(r, [Locals(r) EXCEPT !.pc = "topic_summarise",
                                    !.calls = Append(@, Call("summarise", forum.id, topic.id,
                                                             TopicType(forum.name, topic)))],
                            unread[r])
                /\ UNCHANGED errors
    /\ UNCHANGED <<CONFIG, tg_client, life, env, since_hours, summaries, unread>>

\* summarise returns for a topic and the record is put in front of the list
TopicSummariseReturns_Prepends(r) ==
    /\ pc[r] = "topic_summarise"
    /\ LET forum == unread[r].supergroups[fi[r]]
           topic == topics[r][ti[r]]
           summary_type == TopicType(forum.name, topic)
           res   == summarise(messages[r], topic.title, summary_type, forum.id, topic.id)
       IN  IF res.raised
           THEN /\ errors' = [errors EXCEPT ![r] =
                       Append(@, TopicError(forum.name, topic.title, res.value))]
                /\ UNCHANGED summaries
           ELSE IF Truthy(res.value)
           THEN /\ summaries' = [summaries EXCEPT ![r] =
                       <<Summary(forum.name, topic.title, summary_type,
                                 messages[r], res.value)>> \o @]
                /\ UNCHANGED errors
           ELSE UNCHANGED <<errors, summaries>>
    /\ messages' = [messages EXCEPT ![r] = <<>>]
    /\ Continue(r, [Locals(r) EXCEPT !.pc = "topic", !.ti = @ + 1], unread[r])
    /\ UNCHANGED <<CONFIG, tg_client, life, env, since_hours, unread>>

\* main.py:183-193: summarise returns for a topic
TopicSummariseReturns(r) ==
    /\ pc[r] = "topic_summarise"
    /\ LET forum == unread[r].supergroups[fi[r]]
           topic == topics[r][ti[r]]
           summary_type == TopicType(forum.name, topic)
           res   == summarise(messages[r], topic.title, summary_type, forum.id, topic.id)
       IN  IF res.raised
           THEN /\ errors' = [errors EXCEPT ![r] =
                       Append(@, TopicError(forum.name, topic.title, res.value))]
                /\ UNCHANGED summaries
           ELSE IF Truthy(res.value)
           THEN /\ summaries' = [summaries EXCEPT ![r] =
                       Append(@, Summary(forum.name, topic.title, summary_type,
                                         messages[r], res.value))]
                /\ UNCHANGED errors
           ELSE UNCHANGED <<errors, summaries>>
    /\ messages' = [messages EXCEPT ![r] = <<>>]
    /\ Continue(r, [Locals(r) EXCEPT !.pc = "topic", !.ti = @ + 1], unread[r])
    /\ UNCHANGED <<CONFIG, tg_client, life, env, since_hours, unread>>

\* main.py:222-230 and main.py:239-240: get_chat_messages returns
GroupFetchReturns(r) ==
    /\ pc[r] = "group_fetch"
    /\ LET group == unread[r].groups[gi[r]]
           res   == get_chat_messages(group.id, since_hours[r])
           next  == [Locals(r) EXCEPT !.pc = "group", !.gi = @ + 1]
       IN  IF res.raised
           THEN /\ errors' = [errors EXCEPT ![r] = Append(@, GroupError(group.name, res.value))]
                /\ Continue(r, next, unread[r])
                /\ UNCHANGED messages
           ELSE IF res.value = <<>>
           THEN /\ Continue(r, next, unread[r])
                /\ UNCHANGED <<errors, messages>>
           ELSE /\ messages' = [messages EXCEPT ![r] = res.value]
                /\ Continue(r, [Locals(r) EXCEPT !.pc = "group_summarise",
                                    !.calls = Append(@, Call("summarise", group.id, NoTopic,
                                                             GroupType(group)))],
                            unread[r])
                /\ UNCHANGED errors
    /\ UNCHANGED <<CONFIG, tg_client, life, env, since_hours, summaries, unread>>

\* main.py:230-246: summarise returns for a plain group
GroupSummariseReturns(r) ==
    /\ pc[r] = "group_summarise"
    /\ LET group == unread[r].groups[gi[r]]
           summary_type == GroupType(group)
           res   == summarise(messages[r], group.name, summary_type, group.id, NoTopic)
       IN  IF res.raised
           THEN /\ errors' = [errors EXCEPT ![r] = Append(@, GroupError(group.name, res.value))]
                /\ UNCHANGED summaries
           ELSE IF Truthy(res.value)
           THEN /\ summaries' = [summaries EXCEPT ![r] =
                       Append(@, Summary(group.name, AllTopics, summary_type,
                                         messages[r], res.value))]
                /\ UNCHANGED errors
           ELSE UNCHANGED <<errors, summaries>>
    /\ messages' = [messages EXCEPT ![r] = <<>>]
    /\ Continue(r, [Locals(r) EXCEPT !.pc = "group", !.gi = @ + 1], unread[r])
    /\ UNCHANGED <<CONFIG, tg_client, life, env, since_hours, unread>>

(***************************************************************************)
(* Inputs: configuration documents and states of the conversation source.  *)
(***************************************************************************)
Dialog(id, name, kind, unread_count, archived) ==
    [id |-> id, name |-> name, kind |-> kind, unread_count |-> unread_count,
     archived |-> archived]

Topic(id, title, unread_count) == [id |-> id, title |-> title, unread_count |-> unread_count]

\* a topic of a configuration entry; threshold < 0 and type "" leave the key out
TopicEntry(name, type, threshold) ==
    [name |-> name,
     keys |-> {"name"} \cup (IF type = "" THEN {} ELSE {"type"})
                       \cup (IF threshold < 0 THEN {} ELSE {"threshold"}),
     type |-> type,
     threshold |-> IF threshold < 0 THEN 0 ELSE threshold]

\* a forum-style entry; default_type "" leaves the key out
ForumEntry(name, tl, default_type) ==
    [name |-> name,
     keys |-> {"name", "topics"} \cup (IF default_type = "" THEN {} ELSE {"default_type"}),
     topics |-> tl, default_type |-> default_type, type |-> "", threshold |-> 0]

\* a flat entry; threshold < 0 leaves the key out
FlatEntry(name, type, threshold) ==
    [name |-> name,
     keys |-> {"name", "type"} \cup (IF threshold < 0 THEN {} ELSE {"threshold"}),
     topics |-> <<>>, default_type |-> "", type |-> type,
     threshold |-> IF threshold < 0 THEN 0 ELSE threshold]

Document(keys, groups, excluded_groups, show_dm_counts) ==
    [keys |-> keys, groups |-> groups, excluded_groups |-> excluded_groups,
     show_dm_counts |-> show_dm_counts]

\* the ids of the entities and topics of the conversation source
DmId == 1
OtherDmId == 2
GroupId == 11
OtherGroupId == 12
ArchivedId == 13
ForumId == 21
EngId == 1
RandomId == 2

Targets == {<<ForumId, EngId>>, <<ForumId, RandomId>>, <<GroupId, NoTopic>>,
            <<OtherGroupId, NoTopic>>}

Source(dialogs, tl, ages, faults, hours) ==
    [dialogs |-> dialogs, topics |-> [f \in {ForumId} |-> tl], ages |-> ages,
     faults |-> faults, hours |-> hours]

\* every window holds one message of the last hour and one of the day before
TwoMessages == [t \in Targets |-> <<1, 30>>]

InitRequests ==
    /\ tg_client = None
    /\ life = "created"
    /\ pc = [r \in Reqs |-> "new"]
    /\ since_hours = [r \in Reqs |-> 0]
    /\ errors = [r \in Reqs |-> <<>>]
    /\ summaries = [r \in Reqs |-> <<>>]
    /\ message_counts = [r \in Reqs |-> NoCounts]
    /\ fi = [r \in Reqs |-> 0]
    /\ ti = [r \in Reqs |-> 0]
    /\ gi = [r \in Reqs |-> 0]
    /\ unread = [r \in Reqs |-> NoUnread]
    /\ topics = [r \in Reqs |-> <<>>]
    /\ forum_data = [r \in Reqs |-> NoForum]
    /\ messages = [r \in Reqs |-> <<>>]
    /\ calls = [r \in Reqs |-> <<>>]

(***************************************************************************)
(* Spec: names, exclusion list and visibility flag vary.                   *)
(***************************************************************************)
NameDialogs ==
    {<<Dialog(DmId, dm, "User", 2, FALSE),
       Dialog(OtherDmId, "Ann", "User", 1, FALSE),
       Dialog(GroupId, g, "Chat", 2, FALSE),
       Dialog(ForumId, f, "Forum", 3, FALSE),
       Dialog(OtherGroupId, "Old", "Channel", 0, FALSE),
       Dialog(ArchivedId, "Attic", "Chat", 1, TRUE)>> :
        dm \in {"Team", "Mom"}, g \in {"Team", "Chat"}, f \in {"Team", "Dev"}}

NameGroups ==
    {<<ForumEntry("team", <<TopicEntry("eng", "technical", 1)>>, "logistics"),
       FlatEntry("chat", "memes", 1)>>,
     <<FlatEntry("TEAM", "invites", 1)>>}

NameDocuments ==
    {Document(keys, groups, excluded, show) :
        keys \in {{"groups"}, {"groups", "excluded_groups", "show_dm_counts"}},
        groups \in NameGroups,
        excluded \in {<<"team">>, <<"CHAT", "Dev">>},
        show \in BOOLEAN}
    \cup {Document({"excluded_groups"}, <<>>, <<"TEAM">>, TRUE)}

NameSources ==
    {Source(d, <<Topic(EngId, "Eng", 2), Topic(RandomId, "Random", 1)>>, TwoMessages, f, {24}) :
        d \in NameDialogs,
        f \in {{}, {Fault("messages.create", ForumId, EngId)}}}

Init ==
    /\ CONFIG \in NameDocuments
    /\ env \in NameSources
    /\ InitRequests

Next ==
    \/ LifespanStart
    \/ ConnectReturns
    \/ ConnectRaises
    \/ Shutdown
    \/ \E r \in Reqs :
        \/ StartRequest(r)
        \/ ListingReturns(r)
        \/ TopicsReturn(r)
        \/ TopicFetchReturns(r)
        \/ TopicSummariseReturns(r)
        \/ GroupFetchReturns(r)
        \/ GroupSummariseReturns(r)

Spec == Init /\ [][Next]_vars

(***************************************************************************)
(* SpecPolicy: unread counts, styles and thresholds vary.                  *)
(***************************************************************************)
Unreads == 0..MaxUnread
\* no threshold, and thresholds at both ends of the unread counts
Thresholds == {-1, 0, 1, MaxUnread}

PolicyDialogs ==
    {<<Dialog(DmId, "Mom", "User", 1, FALSE),
       Dialog(GroupId, "Chat", "Chat", 2, FALSE),
       Dialog(ForumId, "Team", "Forum", 3, FALSE)>>}

PolicyDocuments ==
    {Document({"groups"},
              <<ForumEntry("team", <<TopicEntry("ENG", type, threshold)>>, default_type),
                FlatEntry("chat", flat[1], flat[2])>>,
              <<>>, TRUE) :
        type \in {"technical", "skip", "bogus-style", ""},
        threshold \in Thresholds,
        default_type \in {"", "skip", "bogus-style"},
        flat \in {<<"invites", -1>>, <<"bogus-style", 2>>}}

PolicySources ==
    {Source(d, <<Topic(EngId, "Eng", u), Topic(RandomId, "Random", 1)>>, TwoMessages, {}, {24}) :
        d \in PolicyDialogs, u \in Unreads}

InitPolicy ==
    /\ CONFIG \in PolicyDocuments
    /\ env \in PolicySources
    /\ InitRequests

SpecPolicy == InitPolicy /\ [][Next]_vars

(***************************************************************************)
(* SpecFaults: the calls that raise vary.                                  *)
(***************************************************************************)
FaultDialogs ==
    <<Dialog(DmId, "Mom", "User", 1, FALSE),
      Dialog(GroupId, "Chat", "Chat", 2, FALSE),
      Dialog(OtherGroupId, "Ops", "Channel", 1, FALSE),
      Dialog(ForumId, "Team", "Forum", 3, FALSE)>>

FaultTopics == <<Topic(EngId, "Eng", 2), Topic(RandomId, "Random", 1)>>

FaultDocument ==
    Document({"groups", "show_dm_counts"},
             <<ForumEntry("team", <<TopicEntry("eng", "technical", 1)>>, "logistics"),
               FlatEntry("chat", "memes", 1),
               FlatEntry("ops", "invites", -1)>>,
             <<>>, TRUE)

FaultPool ==
    {Fault("get_dialogs", 0, NoTopic), Fault("GetForumTopics", ForumId, NoTopic),
     Fault("empty_text", ForumId, EngId)}
    \cup {Fault("iter_messages", t[1], t[2]) : t \in Targets \ {<<OtherGroupId, NoTopic>>}}
    \cup {Fault("messages.create", t[1], t[2]) : t \in Targets}

FaultSets == {f \in SUBSET FaultPool : Cardinality(f) <= MaxFaults}

\* a second document: an exclusion list, unknown styles, a threshold of 0
OtherFaultDocument ==
    Document({"groups", "excluded_groups"},
             <<ForumEntry("TEAM", <<>>, "bogus-style"), FlatEntry("ops", "bogus-style", 0)>>,
             <<"chat">>, TRUE)

InitFaults ==
    /\ CONFIG \in {FaultDocument, OtherFaultDocument}
    /\ env \in {Source(FaultDialogs, FaultTopics, TwoMessages, f, {24}) : f \in FaultSets}
    /\ InitRequests

SpecFaults == InitFaults /\ [][Next]_vars

(***************************************************************************)
(* SpecRuns: the recency window of the requests and the message windows    *)
(* vary.                                                                   *)
(***************************************************************************)
RunAges ==
    {TwoMessages,
     [TwoMessages EXCEPT ![<<GroupId, NoTopic>>] = <<30>>, ![<<ForumId, RandomId>>] = <<>>]}

RunFaults ==
    {{},
     {Fault("messages.create", ForumId, EngId)},
     {Fault("iter_messages", ForumId, RandomId), Fault("messages.create", GroupId, NoTopic)},
     {Fault("GetForumTopics", ForumId, NoTopic), Fault("empty_text", GroupId, NoTopic)},
     {Fault("get_dialogs", 0, NoTopic)}}

InitRuns ==
    /\ CONFIG = FaultDocument
    /\ env \in {Source(FaultDialogs, FaultTopics, a, f, {24, 48}) : a \in RunAges, f \in RunFaults}
    /\ InitRequests

SpecRuns == InitRuns /\ [][Next]_vars

(***************************************************************************)
(* SpecOrder: two forums and two plain groups, in two listing orders.      *)
(***************************************************************************)
OtherForumId == 22
MiscId == 3

OrderTargets ==
    Targets \cup {<<OtherForumId, EngId>>, <<OtherForumId, RandomId>>, <<OtherForumId, MiscId>>}

OrderDialogs ==
    {<<Dialog(GroupId, "Chat", "Chat", 2, FALSE),
       Dialog(OtherForumId, "Dev", "Forum", 2, FALSE),
       Dialog(DmId, "Mom", "User", 1, FALSE),
       Dialog(ForumId, "Team", "Forum", 3, FALSE),
       Dialog(OtherGroupId, "Ops", "Channel", 1, FALSE)>>,
     <<Dialog(ForumId, "Team", "Forum", 3, FALSE),
       Dialog(OtherGroupId, "Ops", "Channel", 1, FALSE),
       Dialog(OtherForumId, "Dev", "Forum", 2, FALSE),
       Dialog(GroupId, "Chat", "Chat", 2, FALSE)>>}

\* the topic lists of the two forums; the titles repeat across the forums
OrderTopics ==
    [f \in {ForumId, OtherForumId} |->
        IF f = ForumId
        THEN <<Topic(EngId, "Eng", 2), Topic(RandomId, "Random", 1)>>
        ELSE <<Topic(RandomId, "Random", 1), Topic(EngId, "Eng", 1), Topic(MiscId, "Misc", 1)>>]

OrderDocument ==
    Document({"groups"},
             <<ForumEntry("team", <<TopicEntry("eng", "technical", 1)>>, "logistics"),
               FlatEntry("chat", "memes", 1),
               ForumEntry("dev", <<TopicEntry("Random", "skip", 1)>>, "memes"),
               FlatEntry("ops", "invites", -1)>>,
             <<>>, TRUE)

OrderFaults ==
    {{},
     {Fault("messages.create", ForumId, RandomId)},
     {Fault("iter_messages", ForumId, EngId), Fault("messages.create", GroupId, NoTopic)},
     {Fault("messages.create", OtherForumId, EngId)},
     {Fault("empty_text", OtherForumId, MiscId), Fault("messages.create", ForumId, EngId)},
     {Fault("GetForumTopics", ForumId, NoTopic)}}

\* the same entries with an exclusion list that names a forum, a plain group
\* and a direct message
ExcludingOrderDocument ==
    Document({"groups", "excluded_groups", "show_dm_counts"}, OrderDocument.groups,
             <<"DEV", "chat", "mom">>, TRUE)

\* the same entries with the direct messages hidden
HidingOrderDocument ==
    Document({"groups", "excluded_groups", "show_dm_counts"}, OrderDocument.groups,
             <<>>, FALSE)

InitOrder ==
    /\ CONFIG \in {OrderDocument, ExcludingOrderDocument, HidingOrderDocument}
    /\ env \in {[dialogs |-> d, topics |-> OrderTopics,
                 ages |-> [t \in OrderTargets |-> <<1, 30>>],
                 faults |-> f, hours |-> {24}] : d \in OrderDialogs, f \in OrderFaults}
    /\ InitRequests

SpecOrder == InitOrder /\ [][Next]_vars

(***************************************************************************)
(* SpecLookup: the entries of the groups configuration vary: names in      *)
(* several cases, topics with and without style and threshold, entries     *)
(* with and without a default style, entries that share a name.            *)
(***************************************************************************)
LookupGroups ==
    {<<ForumEntry("team", <<TopicEntry("ENG", "technical", 2)>>, "memes")>>,
     <<ForumEntry("TEAM", <<TopicEntry("eng", "", -1)>>, "")>>,
     <<ForumEntry("team", <<TopicEntry("eng", "invites", 0)>>, ""),
       ForumEntry("Team", <<>>, "logistics")>>,
     <<ForumEntry("Team", <<>>, "skip"),
       ForumEntry("team", <<TopicEntry("Eng", "technical", 1)>>, "")>>,
     <<ForumEntry("Team", <<TopicEntry("Eng", "technical", 3),
                            TopicEntry("ENG", "memes", 1)>>, "bogus-style")>>,
     <<FlatEntry("team", "memes", 1)>>,
     <<ForumEntry("dev", <<TopicEntry("eng", "technical", 1)>>, "memes")>>,
     <<>>}

LookupDocuments ==
    {Document({"groups"}, g \o <<FlatEntry("chat", "memes", 1)>>, <<>>, TRUE) :
        g \in LookupGroups}
    \cup {Document({}, <<>>, <<>>, TRUE)}

LookupDialogs ==
    {<<Dialog(DmId, "Mom", "User", 1, FALSE),
       Dialog(ForumId, f, "Forum", 3, FALSE),
       Dialog(GroupId, "Chat", "Chat", 2, FALSE),
       Dialog(OtherGroupId, "Team", "Channel", 2, FALSE)>> : f \in {"Team", "TEAM"}}

InitLookup ==
    /\ CONFIG \in LookupDocuments
    /\ env \in {Source(d, FaultTopics, TwoMessages, {}, {24}) : d \in LookupDialogs}
    /\ InitRequests

SpecLookup == InitLookup /\ [][Next]_vars

(***************************************************************************)
(* Vocabulary of the properties.                                           *)
(***************************************************************************)
Range(seq) == {seq[i] : i \in DOMAIN seq}

Done(r) == pc[r] = "done"

\* the name matches an entry of the global exclusion list, case-insensitively
InExclusionList(name) ==
    /\ "excluded_groups" \in CONFIG.keys
    /\ \E e \in Range(CONFIG.excluded_groups) : Lower(e) = Lower(name)

\* the name matches an entry of the groups configuration, case-insensitively
InGroupsConfiguration(name) ==
    /\ "groups" \in CONFIG.keys
    /\ \E g \in Range(CONFIG.groups) : Lower(g.name) = Lower(name)

CountedNames(r) ==
    {e.name : e \in Range(message_counts[r].dms)}
    \cup {e.name : e \in Range(message_counts[r].groups)}
    \cup {e.name : e \in Range(message_counts[r].forums)}

FetchOps == {"get_topic_messages", "get_chat_messages", "summarise"}

\* the request has fetched from, or summarised, the conversation with this id
Attempted(r, conv) == \E c \in Range(calls[r]) : c.op \in FetchOps /\ c.conv = conv

\* C1 as stated: a listed conversation of any kind whose name is on the
\* exclusion list has no count entry and no summary record
C1_ExcludedOfAnyKindAbsent ==
    \A r \in Reqs :
        \A c \in Range(unread[r].dms) \cup Range(unread[r].groups)
                 \cup Range(unread[r].supergroups) :
            InExclusionList(c.name) =>
                /\ c.name \notin CountedNames(r)
                /\ \A s \in Range(summaries[r]) : s.group # c.name

\* C1 amended: a listed plain group or forum whose name is on the exclusion
\* list has no count entry under groups or forums, is never fetched or
\* summarised and has no summary record, whatever the groups configuration
C1_ExcludedGroupsAndForumsAbsent ==
    \A r \in Reqs :
        \A c \in Range(unread[r].groups) \cup Range(unread[r].supergroups) :
            InExclusionList(c.name) =>
                /\ \A e \in Range(message_counts[r].groups) : e.name # c.name
                /\ \A e \in Range(message_counts[r].forums) : e.name # c.name
                /\ forum_data[r].name # c.name
                /\ ~Attempted(r, c.id)
                /\ \A s \in Range(summaries[r]) : s.group # c.name

\* a finished digest with a configured forum excluded by an entry that differs
\* from its name in case, next to another conversation that was summarised
C1_Witness ==
    \E r \in Reqs :
        /\ Done(r)
        /\ summaries[r] # <<>>
        /\ \E c \in Range(unread[r].supergroups) :
            /\ InExclusionList(c.name)
            /\ c.name \notin Range(CONFIG.excluded_groups)
            /\ InGroupsConfiguration(c.name)

\* C3: a plain group or forum that is neither excluded nor named in the groups
\* configuration is counted (a forum with each of its topics) and is never
\* fetched or summarised: no summary record and no error names it
C3_UnconfiguredCountedOnly ==
    \A r \in Reqs :
        /\ \A c \in Range(unread[r].groups) \cup Range(unread[r].supergroups) :
            (~InExclusionList(c.name) /\ ~InGroupsConfiguration(c.name)) =>
                /\ ~Attempted(r, c.id)
                /\ \A s \in Range(summaries[r]) : s.group # c.name
                /\ \A e \in Range(errors[r]) : e.group # c.name
        /\ Done(r) =>
            /\ \A c \in Range(unread[r].groups) :
                (~InExclusionList(c.name) /\ ~InGroupsConfiguration(c.name)) =>
                    [name |-> c.name, count |-> c.unread_count]
                        \in Range(message_counts[r].groups)
            /\ \A c \in Range(unread[r].supergroups) :
                (~InExclusionList(c.name) /\ ~InGroupsConfiguration(c.name)) =>
                    \E e \in Range(message_counts[r].forums) :
                        /\ e.name = c.name
                        /\ e.total_count = c.unread_count
                        /\ e.topics = [i \in DOMAIN env.topics[c.id] |->
                                          [name |-> env.topics[c.id][i].title,
                                           count |-> env.topics[c.id][i].unread_count]]

\* a finished digest with an unconfigured forum that has topics and an
\* unconfigured plain group, under a configuration that has flat entries
C3_Witness ==
    \E r \in Reqs :
        /\ Done(r)
        /\ \E i \in DOMAIN ConfigGroups : Has(ConfigGroups[i], "type")
        /\ \E c \in Range(unread[r].groups) :
            ~InExclusionList(c.name) /\ ~InGroupsConfiguration(c.name)
        /\ \E c \in Range(unread[r].supergroups) :
            /\ ~InExclusionList(c.name) /\ ~InGroupsConfiguration(c.name)
            /\ \E e \in Range(message_counts[r].forums) : e.name = c.name /\ e.topics # <<>>

\* the ids of the direct messages of the conversation source
DirectMessageIds == {d.id : d \in {x \in Range(env.dialogs) : x.kind = "User"}}

\* C9: with show_dm_counts false message_counts.dms is empty; and whatever the
\* flag and the configuration, no direct message is fetched or summarised
C9_DirectMessagesNeverSummarised ==
    \A r \in Reqs :
        /\ ("show_dm_counts" \in CONFIG.keys /\ ~CONFIG.show_dm_counts)
            => message_counts[r].dms = <<>>
        /\ \A id \in DirectMessageIds : ~Attempted(r, id)

\* a finished digest with the flag false and an unread direct message whose
\* name has a flat configuration entry and is not excluded, next to summaries
C9_Witness ==
    \E r \in Reqs :
        /\ Done(r)
        /\ "show_dm_counts" \in CONFIG.keys /\ ~CONFIG.show_dm_counts
        /\ summaries[r] # <<>>
        /\ \E d \in Range(env.dialogs) :
            /\ d.kind = "User" /\ d.unread_count > 0 /\ ~d.archived
            /\ ~InExclusionList(d.name)
            /\ \E g \in Range(ConfigGroups) : Lower(g.name) = Lower(d.name) /\ Has(g, "type")

\* the request has fetched, or summarised, this topic of this forum
TopicAttempted(r, conv, topic) ==
    \E c \in Range(calls[r]) : c.op \in FetchOps /\ c.conv = conv /\ c.topic = topic

\* the threshold of the policy get_topic_config resolves, 1 when it names none
ResolvedThreshold(policy) == IF "threshold" \in policy.keys THEN policy.threshold ELSE 1

\* the style of a resolved policy, skip when it names none
ResolvedStyle(policy) == IF "type" \in policy.keys THEN policy.type ELSE "skip"

\* C2: a topic of a non-excluded forum whose unread count is below the
\* threshold of its resolved policy is never fetched or summarised and has no
\* summary record, and the finished digest still lists its name and count
\* under the forum's entry
C2_BelowThresholdCountedNotSummarised ==
    \A r \in Reqs :
        \A f \in Range(unread[r].supergroups) :
            \A t \in Range(get_group_topics(f.id).value) :
                LET policy == get_topic_config(f.name, t.title)
                IN  (/\ ~InExclusionList(f.name)
                     /\ policy.found
                     /\ t.unread_count < ResolvedThreshold(policy)) =>
                        /\ ~TopicAttempted(r, f.id, t.id)
                        /\ \A s \in Range(summaries[r]) :
                            ~(s.group = f.name /\ s.topic = t.title)
                        /\ Done(r) =>
                            \E e \in Range(message_counts[r].forums) :
                                /\ e.name = f.name
                                /\ [name |-> t.title, count |-> t.unread_count]
                                       \in Range(e.topics)

\* a finished digest with an unread topic whose style is not skip and whose
\* count is below its threshold, next to a sibling topic that was summarised
C2_Witness ==
    \E r \in Reqs :
        /\ Done(r)
        /\ \E f \in Range(unread[r].supergroups) :
            /\ \E t \in Range(get_group_topics(f.id).value) :
                LET policy == get_topic_config(f.name, t.title)
                IN  /\ policy.found
                    /\ ResolvedStyle(policy) # "skip"
                    /\ 0 < t.unread_count
                    /\ t.unread_count < ResolvedThreshold(policy)
            /\ \E s \in Range(summaries[r]) : s.group = f.name

KnownStyles == {"technical", "memes", "logistics", "invites", "skip"}

\* the policy makes the target eligible: a style other than skip and an unread
\* count that reaches the threshold
Eligible(policy, unread_count) ==
    /\ policy.found
    /\ ResolvedStyle(policy) # "skip"
    /\ unread_count >= ResolvedThreshold(policy)

\* the finished digest r holds a record for the target with the configured
\* tag as its type and a text written with the logistics template
LogisticsUnderTag(r, group_name, topic_name, tag) ==
    \E s \in Range(summaries[r]) :
        /\ s.group = group_name /\ s.topic = topic_name
        /\ s.type = tag
        /\ s.summary.template = "logistics"

\* C10: an eligible topic or group whose configured style is none of the five
\* known tags is summarised with the logistics template, no error is recorded
\* for it, and its summary record carries the configured tag as its type
C10_UnknownStyleFallsBackToLogistics ==
    \A r \in Reqs : Done(r) =>
        /\ \A f \in Range(unread[r].supergroups) :
            \A t \in Range(get_group_topics(f.id).value) :
                LET policy == get_topic_config(f.name, t.title)
                IN  (/\ ~InExclusionList(f.name)
                     /\ Eligible(policy, t.unread_count)
                     /\ ResolvedStyle(policy) \notin KnownStyles
                     /\ env.faults \cap {Fault(op, f.id, t.id) :
                            op \in {"iter_messages", "messages.create", "empty_text"}} = {}) =>
                        /\ LogisticsUnderTag(r, f.name, t.title, ResolvedStyle(policy))
                        /\ \A e \in Range(errors[r]) :
                            ~(e.group = f.name /\ e.topic = t.title)
        /\ \A g \in Range(unread[r].groups) :
                LET policy == get_group_config(g.name)
                IN  (/\ ~InExclusionList(g.name)
                     /\ Eligible(policy, g.unread_count)
                     /\ ResolvedStyle(policy) \notin KnownStyles
                     /\ env.faults \cap {Fault(op, g.id, NoTopic) :
                            op \in {"iter_messages", "messages.create", "empty_text"}} = {}) =>
                        /\ LogisticsUnderTag(r, g.name, AllTopics, ResolvedStyle(policy))
                        /\ \A e \in Range(errors[r]) : e.group # g.name

\* a finished digest with a record of type bogus-style for a topic and one for
\* a plain group, both written with the logistics template
C10_Witness ==
    \E r \in Reqs :
        /\ Done(r)
        /\ \E s \in Range(summaries[r]) :
            s.type = "bogus-style" /\ s.topic # AllTopics /\ s.summary.template = "logistics"
        /\ \E s \in Range(summaries[r]) :
            s.type = "bogus-style" /\ s.topic = AllTopics /\ s.summary.template = "logistics"

\* the eligible topics of the listing of request r, as <<forum, topic>>
EligibleTopics(r) ==
    {ft \in UNION {{<<f, t>> : t \in Range(get_group_topics(f.id).value)} :
                        f \in Range(unread[r].supergroups)} :
        /\ ~InExclusionList(ft[1].name)
        /\ Eligible(get_topic_config(ft[1].name, ft[2].title), ft[2].unread_count)}

\* the eligible plain groups of the listing of request r
EligibleGroups(r) ==
    {g \in Range(unread[r].groups) :
        /\ ~InExclusionList(g.name)
        /\ Eligible(get_group_config(g.name), g.unread_count)}

HasTopicSummary(r, f, t) ==
    \E s \in Range(summaries[r]) : s.group = f.name /\ s.topic = t.title

HasGroupSummary(r, g) ==
    \E s \in Range(summaries[r]) : s.group = g.name /\ s.topic = AllTopics

\* the positions in errors[r] of the strings that name this forum and topic
TopicErrors(r, f, t) ==
    {i \in DOMAIN errors[r] : errors[r][i].group = f.name /\ errors[r][i].topic = t.title}

\* the positions in errors[r] of the strings that name this plain group
GroupErrors(r, g) ==
    {i \in DOMAIN errors[r] : errors[r][i].group = g.name /\ errors[r][i].topic = ""}

\* C4 as stated: when the message fetch of exactly one eligible topic raises
\* and nothing else does, the finished digest has exactly one error, naming
\* that forum and topic, and every other eligible topic and group a summary
C4_OneFetchFailureOneError ==
    \A r \in Reqs : Done(r) =>
        \A ft \in EligibleTopics(r) :
            env.faults = {Fault("iter_messages", ft[1].id, ft[2].id)} =>
                /\ Len(errors[r]) = 1
                /\ TopicErrors(r, ft[1], ft[2]) = {1}
                /\ \A other \in EligibleTopics(r) \ {ft} :
                    HasTopicSummary(r, other[1], other[2])
                /\ \A g \in EligibleGroups(r) : HasGroupSummary(r, g)

\* C5 as stated: when the fetch or summarise raises for an eligible topic or
\* group, the request does not fail, the finished digest has exactly one error
\* naming the target and no summary record for it, and every eligible target
\* for which nothing raised has its summary record
C5_FailureRecordedAndIsolated ==
    \A r \in Reqs :
        /\ (tg_client = Client /\ ~Fails("get_dialogs", 0, NoTopic)) => pc[r] # "failed"
        /\ Done(r) =>
            /\ \A ft \in EligibleTopics(r) :
                LET fetch  == Fails("iter_messages", ft[1].id, ft[2].id)
                    create == Fails("messages.create", ft[1].id, ft[2].id)
                    empty  == Fails("empty_text", ft[1].id, ft[2].id)
                IN  /\ (fetch \/ create) =>
                        /\ Cardinality(TopicErrors(r, ft[1], ft[2])) = 1
                        /\ ~HasTopicSummary(r, ft[1], ft[2])
                    /\ ~(fetch \/ create \/ empty) => HasTopicSummary(r, ft[1], ft[2])
            /\ \A g \in EligibleGroups(r) :
                LET fetch  == Fails("iter_messages", g.id, NoTopic)
                    create == Fails("messages.create", g.id, NoTopic)
                    empty  == Fails("empty_text", g.id, NoTopic)
                IN  /\ (fetch \/ create) =>
                        /\ Cardinality(GroupErrors(r, g)) = 1
                        /\ ~HasGroupSummary(r, g)
                    /\ ~(fetch \/ create \/ empty) => HasGroupSummary(r, g)

\* the part of C5 that is about summarise: when the generation call raises for
\* an eligible target whose window was fetched, exactly one error names the
\* target, it has no summary record, and the targets without a fault have one
C5_SummariseFailureRecorded ==
    \A r \in Reqs : Done(r) =>
        /\ \A ft \in EligibleTopics(r) :
            LET fetch  == Fails("iter_messages", ft[1].id, ft[2].id)
                create == Fails("messages.create", ft[1].id, ft[2].id)
                empty  == Fails("empty_text", ft[1].id, ft[2].id)
            IN  /\ (~fetch /\ create) =>
                    /\ Cardinality(TopicErrors(r, ft[1], ft[2])) = 1
                    /\ ~HasTopicSummary(r, ft[1], ft[2])
                /\ ~(fetch \/ create \/ empty) => HasTopicSummary(r, ft[1], ft[2])
        /\ \A g \in EligibleGroups(r) :
            LET fetch  == Fails("iter_messages", g.id, NoTopic)
                create == Fails("messages.create", g.id, NoTopic)
                empty  == Fails("empty_text", g.id, NoTopic)
            IN  /\ (~fetch /\ create) =>
                    /\ Cardinality(GroupErrors(r, g)) = 1
                    /\ ~HasGroupSummary(r, g)
                /\ ~(fetch \/ create \/ empty) => HasGroupSummary(r, g)

\* the awaits past the listing, each with a step that handles its return,
\* and the return of the response
AwaitOrResponse ==
    {"topics", "topic_fetch", "topic_summarise", "group_fetch", "group_summarise", "done"}

C7_ListingFailureIsFatal ==
    \A r \in Reqs :
        /\ tg_client = None => pc[r] \in {"new", "failed"} /\ calls[r] = <<>>
        /\ Fails("get_dialogs", 0, NoTopic) => pc[r] \in {"new", "listing", "failed"}
        /\ pc[r] \in {"listing", "failed"} =>
            /\ \A c \in Range(calls[r]) : c.op = "get_unread_summary"
            /\ message_counts[r] = NoCounts
            /\ summaries[r] = <<>>
            /\ errors[r] = <<>>

\* a request that failed on the listing call of a connected client
C7_Witness ==
    \E r \in Reqs :
        /\ pc[r] = "failed"
        /\ tg_client = Client
        /\ Fails("get_dialogs", 0, NoTopic)
        /\ Len(calls[r]) = 1

\* C8: two requests with the same since_hours, under the same configuration
\* and a source and generator that answer every call identically, return the
\* same message_counts, the same summary records and the same errors
C8_SameRequestSameDigest ==
    \A r1, r2 \in Reqs :
        (Done(r1) /\ Done(r2) /\ since_hours[r1] = since_hours[r2]) =>
            /\ message_counts[r1] = message_counts[r2]
            /\ summaries[r1] = summaries[r2]
            /\ errors[r1] = errors[r2]

\* two finished digests for the same since_hours that hold counts, a summary
\* record and an error
C8_Witness ==
    \E r1, r2 \in Reqs :
        /\ r1 # r2
        /\ Done(r1) /\ Done(r2)
        /\ since_hours[r1] = since_hours[r2]
        /\ message_counts[r1].forums # <<>>
        /\ summaries[r1] # <<>>
        /\ errors[r1] # <<>>

\* record a lies before record b in the order of the source: a topic record
\* before a group record; topic records by the position of the forum in the
\* listing, then of the topic in the forum's topic list; group records by the
\* position of the group in the listing
Precedes(r, a, b) ==
    LET forums == unread[r].supergroups
        groups == unread[r].groups
    IN  \/ a.topic # AllTopics /\ b.topic = AllTopics
        \/ /\ a.topic # AllTopics /\ b.topic # AllTopics
           /\ \E i, j \in DOMAIN forums :
                /\ forums[i].name = a.group /\ forums[j].name = b.group
                /\ \/ i < j
                   \/ /\ i = j
                      /\ LET tl == get_group_topics(forums[i].id).value
                         IN  \E k, l \in DOMAIN tl :
                                k < l /\ tl[k].title = a.topic /\ tl[l].title = b.topic
        \/ /\ a.topic = AllTopics /\ b.topic = AllTopics
           /\ \E i, j \in DOMAIN groups :
                i < j /\ groups[i].name = a.group /\ groups[j].name = b.group

\* C11: at every moment of a request its summaries list is in the order of
\* the source: topic records before group records, forums in listing order,
\* the topics of a forum in topic-list order, groups in listing order,
\* whatever attempts failed or were skipped in between
C11_SummariesInSourceOrder ==
    \A r \in Reqs :
        \A i, j \in DOMAIN summaries[r] :
            i < j => Precedes(r, summaries[r][i], summaries[r][j])

\* a finished digest with records of two forums and of two plain groups, two
\* of them of one forum, and an error recorded for a target in between
C11_Witness ==
    \E r \in Reqs :
        /\ Done(r)
        /\ errors[r] # <<>>
        /\ Cardinality({s.group : s \in {x \in Range(summaries[r]) : x.topic # AllTopics}}) = 2
        /\ Cardinality({s.group : s \in {x \in Range(summaries[r]) : x.topic = AllTopics}}) = 2
        /\ \E i, j \in DOMAIN summaries[r] :
            i < j /\ summaries[r][i].group = summaries[r][j].group

\* the call was made for a forum topic, or a plain group, of the listing of
\* request r whose resolved policy makes it eligible
CallForEligibleTarget(r, c) ==
    IF c.topic # NoTopic
    THEN \E f \in Range(unread[r].supergroups) :
            /\ f.id = c.conv
            /\ \E t \in Range(get_group_topics(f.id).value) :
                /\ t.id = c.topic
                /\ Eligible(get_topic_config(f.name, t.title), t.unread_count)
    ELSE \E g \in Range(unread[r].groups) :
            /\ g.id = c.conv
            /\ Eligible(get_group_config(g.name), g.unread_count)

VisibilityFlag == IF "show_dm_counts" \in CONFIG.keys THEN CONFIG.show_dm_counts ELSE TRUE

NameAndCount(item) == [name |-> item.name, count |-> item.unread_count]

\* the entry of a forum: its total and one entry per topic of its topic list
ForumCounts(forum) ==
    LET tl == get_group_topics(forum.id).value
    IN  [name |-> forum.name,
         total_count |-> forum.unread_count,
         topics |-> [k \in DOMAIN tl |-> [name |-> tl[k].title, count |-> tl[k].unread_count]]]

\* the counts the listing of request r and the document call for
ReferenceCounts(r) ==
    LET kept_groups == SelectSeq(unread[r].groups, LAMBDA g : ~InExclusionList(g.name))
        kept_forums == SelectSeq(unread[r].supergroups, LAMBDA f : ~InExclusionList(f.name))
    IN  [dms |-> IF VisibilityFlag
                 THEN [i \in DOMAIN unread[r].dms |-> NameAndCount(unread[r].dms[i])]
                 ELSE <<>>,
         groups |-> [i \in DOMAIN kept_groups |-> NameAndCount(kept_groups[i])],
         forums |-> [i \in DOMAIN kept_forums |-> ForumCounts(kept_forums[i])]]

\* C13: the message_counts of a finished digest are the reference counts:
\* the direct messages of the listing when the flag is set, else none; the
\* plain groups that are not excluded; one entry per forum that is not
\* excluded with its total and one entry per topic of its topic list; all in
\* the order of the source, whatever is configured, summarised or failed
C13_CountsEqualReference ==
    \A r \in Reqs : Done(r) => message_counts[r] = ReferenceCounts(r)

\* a finished digest that counts a direct message named on the exclusion
\* list, leaves out an excluded forum and an excluded group, counts the
\* topics of another forum, and holds an error of a failed summarise
C13_Witness ==
    \E r \in Reqs :
        /\ Done(r)
        /\ errors[r] # <<>>
        /\ \E d \in Range(message_counts[r].dms) : InExclusionList(d.name)
        /\ \E f \in Range(unread[r].supergroups) : InExclusionList(f.name)
        /\ \E g \in Range(unread[r].groups) : InExclusionList(g.name)
        /\ \E e \in Range(message_counts[r].forums) : Len(e.topics) = 2
        /\ message_counts[r].groups # <<>>

\* the names the lookups are asked about
QueryNames == {"Team", "TEAM", "team", "Dev", "Chat", "Mom"}
QueryTopics == {"Eng", "ENG", "eng", "Random"}

\* the entries of the groups configuration whose name is the conversation's,
\* case-insensitively
MatchingEntries(group_name) ==
    IF "groups" \in CONFIG.keys
    THEN {i \in DOMAIN CONFIG.groups : Lower(CONFIG.groups[i].name) = Lower(group_name)}
    ELSE {}

\* the topics of entry i whose name is the topic's, case-insensitively
MatchingTopics(i, topic_name) ==
    LET e == CONFIG.groups[i]
    IN  IF "topics" \in e.keys
        THEN {k \in DOMAIN e.topics : Lower(e.topics[k].name) = Lower(topic_name)}
        ELSE {}

\* the matching entries that have a matching topic or a default style
ResolvingEntries(group_name, topic_name) ==
    {i \in MatchingEntries(group_name) :
        MatchingTopics(i, topic_name) # {} \/ "default_type" \in CONFIG.groups[i].keys}

First(S) == CHOOSE i \in S : \A j \in S : i <= j

\* C14: get_topic_config matches the conversation name case-insensitively;
\* in the first matching entry that has a matching topic or a default style,
\* a topic whose name matches case-insensitively is returned with the style
\* and threshold configured for it, also when the entry has a default style;
\* without a matching topic the policy has the default style and threshold 1;
\* with no matching entry, or only matching entries with neither, it is none
C14_TopicPolicyResolution ==
    \A group_name \in QueryNames, topic_name \in QueryTopics :
        LET policy == get_topic_config(group_name, topic_name)
            R == ResolvingEntries(group_name, topic_name)
        IN  IF R = {}
            THEN ~policy.found
            ELSE LET e == CONFIG.groups[First(R)]
                     M == MatchingTopics(First(R), topic_name)
                 IN  IF M # {}
                     THEN LET t == e.topics[First(M)]
                          IN  /\ policy.found
                              /\ policy.keys = t.keys
                              /\ "type" \in t.keys => policy.type = t.type
                              /\ "threshold" \in t.keys => policy.threshold = t.threshold
                     ELSE /\ policy.found
                          /\ {"type", "threshold"} \subseteq policy.keys
                          /\ policy.type = e.default_type
                          /\ policy.threshold = 1

\* a finished digest of a forum whose entry, found under a name in another
\* case, has a default style and a topic that matches one topic of the forum
\* in another case and not the other: the first has a record with the topic's
\* style, the second a record with the default style
C14_Witness ==
    \E r \in Reqs :
        /\ Done(r)
        /\ \E f \in Range(unread[r].supergroups) :
            /\ \A i \in MatchingEntries(f.name) : CONFIG.groups[i].name # f.name
            /\ \E i \in MatchingEntries(f.name) :
                LET e == CONFIG.groups[i]
                IN  /\ "default_type" \in e.keys
                    /\ \E k \in DOMAIN e.topics :
                        /\ e.topics[k].type # e.default_type
                        /\ \E s \in Range(summaries[r]) :
                            /\ s.group = f.name
                            /\ s.topic # e.topics[k].name
                            /\ Lower(s.topic) = Lower(e.topics[k].name)
                            /\ s.type = e.topics[k].type
                    /\ \E s \in Range(summaries[r]) :
                        /\ s.group = f.name
                        /\ MatchingTopics(i, s.topic) = {}
                        /\ s.type = e.default_type

\* the matching entries that carry a direct style
DirectEntries(group_name) ==
    {i \in MatchingEntries(group_name) : "type" \in CONFIG.groups[i].keys}

\* C15: get_group_config returns the first entry whose name matches
\* case-insensitively and that carries a direct style, and none when there is
\* no such entry; a plain group without such an entry is never fetched or
\* summarised and has no record; a record that is not of a forum topic has
\* the topic "(all)", and every eligible plain group whose calls succeed has
\* such a record in the finished digest
C15_GroupPolicyOnlyForDirectStyle ==
    /\ \A group_name \in QueryNames :
        LET policy == get_group_config(group_name)
            D == DirectEntries(group_name)
        IN  IF D = {}
            THEN ~policy.found
            ELSE LET e == CONFIG.groups[First(D)]
                 IN  /\ policy.found
                     /\ policy.name = e.name
                     /\ policy.keys = e.keys
                     /\ policy.type = e.type
                     /\ "threshold" \in e.keys => policy.threshold = e.threshold
    /\ \A r \in Reqs :
        /\ \A g \in Range(unread[r].groups) :
            DirectEntries(g.name) = {} =>
                /\ ~Attempted(r, g.id)
                /\ ~HasGroupSummary(r, g)
                /\ GroupErrors(r, g) = {}
        /\ \A s \in Range(summaries[r]) :
            s.topic # AllTopics =>
                \E f \in Range(unread[r].supergroups) :
                    /\ f.name = s.group
                    /\ \E t \in Range(get_group_topics(f.id).value) : t.title = s.topic
        /\ Done(r) =>
            \A g \in EligibleGroups(r) :
                env.faults \cap {Fault(op, g.id, NoTopic) :
                    op \in {"iter_messages", "messages.create", "empty_text"}} = {}
                    => HasGroupSummary(r, g)

\* a finished digest with an unread plain group whose only matching entries
\* are forum-style, while the forum of that name was summarised, next to an
\* eligible plain group with its "(all)" record
C15_Witness ==
    \E r \in Reqs :
        /\ Done(r)
        /\ \E g \in Range(unread[r].groups) :
            /\ MatchingEntries(g.name) # {}
            /\ DirectEntries(g.name) = {}
            /\ g.unread_count > 0
            /\ \E s \in Range(summaries[r]) : s.group = g.name /\ s.topic # AllTopics
        /\ \E g \in EligibleGroups(r) : HasGroupSummary(r, g)

\* request r is suspended at a call on the shared client
ClientCallOutstanding(r) == pc[r] \in {"listing", "topics", "topic_fetch", "group_fetch"}

\* C16 as stated: digest requests do not overlap: while a request is between
\* its listing call and its response no other request is, so the shared
\* client never has calls of two requests outstanding
C16_RequestsDoNotOverlap ==
    \A r1, r2 \in Reqs :
        r1 # r2 =>
            /\ ~(InFlight(r1) /\ InFlight(r2))
            /\ ~(ClientCallOutstanding(r1) /\ ClientCallOutstanding(r2))

\* everything request r holds: its position, its parameter and its locals
RequestState(r) ==
    <<pc[r], since_hours[r], errors[r], summaries[r], message_counts[r], fi[r], ti[r],
      gi[r], unread[r], topics[r], forum_data[r], messages[r], calls[r]>>

\* C17: a step of a digest request, from its start to its response, leaves
\* CONFIG and tg_client as they are and changes nothing that another request
\* holds: counts, summaries and errors are private to the request
C17_RequestLeavesGlobalsUnchanged ==
    [][\A r \in Reqs :
            RequestState(r)' # RequestState(r) =>
                /\ CONFIG' = CONFIG
                /\ tg_client' = tg_client
                /\ \A q \in Reqs \ {r} : RequestState(q)' = RequestState(q)]_vars

\* a request has returned its digest with counts, a summary and an error
\* while another request, started before it returned, is still under way
C17_Witness ==
    \E r1, r2 \in Reqs :
        /\ r1 # r2
        /\ Done(r1) /\ summaries[r1] # <<>> /\ errors[r1] # <<>>
        /\ InFlight(r2) /\ Len(calls[r2]) > 1
        /\ tg_client = Client

\* the connection to the conversation source is established: connect has
\* completed and disconnect has not begun
ConnectionEstablished == life = "serving"

\* C18 as stated: in every state of the lifecycle the health check reports
\* telegram_connected true exactly when the connection is established: false
\* before the connection is up, when connect failed and after disconnect
C18_HealthTracksConnection ==
    health.telegram_connected <=> ConnectionEstablished

\* the source holds no message of this chat or topic inside the recency window
\* of request r: none at all, or the newest one is older than the cutoff
WindowEmpty(r, conv, topic) ==
    LET ages == env.ages[<<conv, topic>>]
    IN  ages = <<>> \/ ages[1] > since_hours[r]

\* no call for this target raises or answers an empty text
Faultless(conv, topic) ==
    env.faults \cap {Fault(op, conv, topic) :
        op \in {"iter_messages", "messages.create", "empty_text"}} = {}

SummariseCalled(r, conv, topic) ==
    \E c \in Range(calls[r]) : c.op = "summarise" /\ c.conv = conv /\ c.topic = topic

\* C19: an eligible topic or plain group whose fetched window is empty gets
\* no error string, summarise is not called for it (so the generation backend
\* is not invoked) and it has no summary record, which is the second of the
\* two outcomes the claim allows; and the finished digest holds the record of
\* every other eligible target whose window is not empty and whose calls
\* succeed
C19_EmptyWindowIsNotAnError ==
    \A r \in Reqs :
        /\ \A ft \in EligibleTopics(r) :
            (WindowEmpty(r, ft[1].id, ft[2].id) /\ ~Fails("iter_messages", ft[1].id, ft[2].id)) =>
                /\ TopicErrors(r, ft[1], ft[2]) = {}
                /\ ~SummariseCalled(r, ft[1].id, ft[2].id)
                /\ ~HasTopicSummary(r, ft[1], ft[2])
        /\ \A g \in EligibleGroups(r) :
            (WindowEmpty(r, g.id, NoTopic) /\ ~Fails("iter_messages", g.id, NoTopic)) =>
                /\ GroupErrors(r, g) = {}
                /\ ~SummariseCalled(r, g.id, NoTopic)
                /\ ~HasGroupSummary(r, g)
        /\ Done(r) =>
            /\ \A ft \in EligibleTopics(r) :
                (~WindowEmpty(r, ft[1].id, ft[2].id) /\ Faultless(ft[1].id, ft[2].id))
                    => HasTopicSummary(r, ft[1], ft[2])
            /\ \A g \in EligibleGroups(r) :
                (~WindowEmpty(r, g.id, NoTopic) /\ Faultless(g.id, NoTopic))
                    => HasGroupSummary(r, g)

\* a finished digest without errors in which the windows of an eligible topic
\* and of an eligible plain group were fetched and found empty, the second
\* one holding a message older than the cutoff, and a plain group listed
\* after it has its record
C19_Witness ==
    \E r \in Reqs :
        /\ Done(r)
        /\ errors[r] = <<>>
        /\ \E ft \in EligibleTopics(r) :
            /\ WindowEmpty(r, ft[1].id, ft[2].id)
            /\ TopicAttempted(r, ft[1].id, ft[2].id)
        /\ \E i, j \in DOMAIN unread[r].groups :
            /\ i < j
            /\ unread[r].groups[i] \in EligibleGroups(r)
            /\ env.ages[<<unread[r].groups[i].id, NoTopic>>] # <<>>
            /\ WindowEmpty(r, unread[r].groups[i].id, NoTopic)
            /\ Attempted(r, unread[r].groups[i].id)
            /\ HasGroupSummary(r, unread[r].groups[j])

====
